---- MODULE Spec2Model ----
(***************************************************************************)
(* Model of the lead-capture backend (src/server.js, src/db.js).           *)
(*                                                                         *)
(* The server is one Node.js process.  A route handler runs atomically up  *)
(* to its first await or callback registration; what happens between two   *)
(* such points of different requests interleaves freely.  The model has    *)
(* one action per such run of code:                                        *)
(*                                                                         *)
(*   SendOtp            POST /api/send-otp, from entry to the await        *)
(*   SendOtpResume      the provider call settles: the code after the      *)
(*                      await, or the catch block                          *)
(*   VerifyOtp          POST /api/verify-otp, from entry to the await      *)
(*   VerifyOtpResume    the provider call settles: the code after the      *)
(*                      await, or the catch block                          *)
(*   ExportLeads        GET /api/export-leads, which only issues db.all    *)
(*   ExportLeadsCallback  sqlite runs the SELECT and calls db.all's        *)
(*                      callback                                           *)
(*   DbRunCallback      sqlite runs the INSERT and calls db.run's callback *)
(*                                                                         *)
(* What the provider and sqlite answer is an input of the resuming action. *)
(* A statement handed to sqlite3 stays in dbQueue until sqlite has run it  *)
(* and called its callback, which the model takes as one step: neither     *)
(* callback reads anything that could change in between.                   *)
(*                                                                         *)
(* JavaScript values are records tagged with their type; strings are       *)
(* sequences of one-character strings, so that String.replace is computed  *)
(* character by character.  Names are absent or strings; a phone may also  *)
(* be a number, for which phone.replace throws outside the try block.  The *)
(* created_at column is left out: nothing in server.js reads it except to  *)
(* copy it into the export.                                                *)
(***************************************************************************)
EXTENDS Integers, Sequences, FiniteSets, TLC

VARIABLES
    leads,      \* server.js:42   the in-memory session map, keyed by normalized phone
    table,      \* db.js:11       the rows of the leads table, in insertion order
    dbQueue,    \* statements handed to sqlite3 whose callback has not run yet
    reqs,       \* requests whose handler is suspended, by request number
    nreq,       \* number of requests received so far
    res,        \* the HTTP response the most recent step wrote, with what the
                \* provider call of the request it answers settled to
    console,    \* the lines the most recent step wrote to console.log/error
    lastWrite,  \* history: which request last assigned each entry of leads
    req         \* the HTTP request the most recent step received

vars == <<leads, table, dbQueue, reqs, nreq, res, console, lastWrite, req>>

\* Number of requests the model lets arrive.
MaxReqs == 3

----------------------------------------------------------------------------
\* JavaScript values

Undefined == [t |-> "undefined"]
Null == [t |-> "null"]
Str(s) == [t |-> "string", s |-> s]
Num(n) == [t |-> "number", n |-> n]

\* Truthy, as if the handlers tested only for fields that are absent
TruthyUnlessAbsent(v) == v.t \in {"string", "number"}

\* !v is false: the truthiness test of `!name || !phone` and `!phone || !otp`.
Truthy(v) ==
    CASE v.t = "string" -> v.s # <<>>
      [] v.t = "number" -> v.n # 0
      [] OTHER -> FALSE

\* a || b
OrElse(a, b) == IF Truthy(a) THEN a ELSE b

Digits == {"0", "1", "2", "3", "4", "5", "6", "7", "8", "9"}

IsDigit(c) == c \in Digits

\* Normalize, as if the phone were prefixed without stripping anything
NormalizeKeepAll(s) == <<"+">> \o s

\* `+${phone.replace(/\D/g, '')}` for a string phone
Normalize(s) == <<"+">> \o SelectSeq(s, IsDigit)

----------------------------------------------------------------------------
\* Request bodies

NameInputs == {Undefined, Str(<<>>), Str(<<"A">>), Str(<<"B">>)}

PhoneInputs ==
    {Undefined, Str(<<>>), Num(12),
     Str(<<"+", "1", " ", "2">>), Str(<<"1", "-", "2">>), Str(<<"x">>)}

OtpInputs == {Undefined, Str(<<>>), Str(<<"0", "0">>)}

\* the form sends no catalogCode for the name "A" and the code "Q" otherwise
CatalogOf(name) == IF name = Str(<<"A">>) THEN Undefined ELSE Str(<<"Q">>)

\* every name with every phone, except that "A" owns the phone written
\* "+1 2" or "1-2" and "B" the phone written "x"
SendBodies ==
    {b \in {[name |-> n, phone |-> p, catalogCode |-> CatalogOf(n)] :
                n \in NameInputs, p \in PhoneInputs} :
        /\ b.name = Str(<<"A">>) => b.phone # Str(<<"x">>)
        /\ b.name = Str(<<"B">>) =>
               b.phone \notin {Str(<<"+", "1", " ", "2">>), Str(<<"1", "-", "2">>)}}

VerifyBodies == [phone : PhoneInputs, otp : OtpInputs]

----------------------------------------------------------------------------
\* Responses

Json(status, success, message) ==
    [status |-> status, success |-> success, message |-> message]

\* res.json({ success: true })
JsonOk == [status |-> 200, success |-> TRUE]

\* JsonToSheet, as if the header row took the place of the last record
JsonToSheetShort(rows) ==
    [header |-> <<"id", "name", "phone", "catalog_code">>,
     data |-> [i \in 1..(Len(rows) - 1) |->
                 <<rows[i].id, rows[i].name, rows[i].phone, rows[i].catalog_code>>]]

\* XLSX.utils.json_to_sheet(rows): a header row, then one row of cells per record
JsonToSheet(rows) ==
    [header |-> <<"id", "name", "phone", "catalog_code">>,
     data |-> [i \in 1..Len(rows) |->
                 <<rows[i].id, rows[i].name, rows[i].phone, rows[i].catalog_code>>]]

\* the workbook written to the response
Workbook(rows) == [status |-> 200, sheetName |-> "Leads", sheet |-> JsonToSheet(rows)]

Respond(id, route, settled, body) ==
    [req |-> id, route |-> route, settled |-> settled, body |-> body]

NoResponse == [status |-> 0]

----------------------------------------------------------------------------
\* Session map and table

\* { name, phone: normalizedPhone, verified: false }
Session(name, normalizedPhone) ==
    [name |-> name, phone |-> normalizedPhone, verified |-> FALSE]

\* Assign, as if the map were replaced by one holding the new entry only
AssignFresh(l, k, v) == [x \in {k} |-> v]

\* leads[normalizedPhone] = value
Assign(l, k, v) == [x \in DOMAIN l \cup {k} |-> IF x = k THEN v ELSE l[x]]

\* MarkVerified, as if the test for an existing session were missing
MarkVerifiedUpsert(l, k) ==
    IF k \in DOMAIN l
    THEN [l EXCEPT ![k].verified = TRUE]
    ELSE [x \in DOMAIN l \cup {k} |->
            IF x = k THEN [name |-> Undefined, phone |-> k, verified |-> TRUE]
            ELSE l[x]]

\* MarkVerified, as if an approval marked every session
MarkVerifiedAll(l, k) == [x \in DOMAIN l |-> [l[x] EXCEPT !.verified = TRUE]]

\* if (leads[normalizedPhone]) { leads[normalizedPhone].verified = true; }
MarkVerified(l, k) ==
    IF k \in DOMAIN l THEN [l EXCEPT ![k].verified = TRUE] ELSE l

\* IsApproved, as if any status the check resolves with were a success
IsApprovedLoose(status) == status \in {"approved", "pending"}

\* verificationCheck.status === 'approved'
IsApproved(status) == status = "approved"

\* [name, normalizedPhone, catalogCode || null]
InsertParams(name, normalizedPhone, catalogCode) ==
    [name |-> name, phone |-> normalizedPhone,
     catalog_code |-> OrElse(catalogCode, Null)]

\* INSERT INTO leads: id is AUTOINCREMENT and no row is ever deleted
InsertRow(t, p) ==
    Append(t, [id |-> Len(t) + 1, name |-> p.name, phone |-> p.phone,
               catalog_code |-> p.catalog_code])

Put(f, k, v) == [x \in DOMAIN f \cup {k} |-> IF x = k THEN v ELSE f[x]]

Drop(f, k) == [x \in DOMAIN f \ {k} |-> f[x]]

----------------------------------------------------------------------------
\* no response written
Silent == Respond(0, "none", "none", NoResponse)

\* no request received
Idle == [route |-> "none", body |-> Undefined]

Init ==
    /\ leads = <<>>
    /\ table = <<>>
    /\ dbQueue = <<>>
    /\ reqs = <<>>
    /\ nreq = 0
    /\ res = Silent
    /\ console = <<>>
    /\ lastWrite = <<>>
    /\ req = Idle

----------------------------------------------------------------------------
\* What a provider call can settle to: a status its promise resolves with, or
\* "error" when the promise rejects.
Outcomes(route) ==
    IF route = "send-otp" THEN {"pending", "error"}
    ELSE {"approved", "pending", "error"}

----------------------------------------------------------------------------
\* POST /api/send-otp

SendOtp(body) ==
    /\ req' = [route |-> "send-otp", body |-> body]
    /\ nreq < MaxReqs
    /\ nreq' = nreq + 1
    /\ LET id == nreq + 1 IN
       IF ~Truthy(body.name) \/ ~Truthy(body.phone) THEN
           /\ res' = Respond(id, "send-otp", "none",
                             Json(400, FALSE, "Name and phone are required"))
           /\ console' = <<>>
           /\ UNCHANGED <<leads, table, dbQueue, reqs, lastWrite>>
       ELSE IF body.phone.t # "string" THEN
           \* phone.replace is not a function: thrown outside the try block,
           \* so the handler's promise rejects and no response is written
           /\ console' = <<"TypeError">>
           /\ res' = Silent
           /\ UNCHANGED <<leads, table, dbQueue, reqs, lastWrite>>
       ELSE
           LET normalizedPhone == Normalize(body.phone.s) IN
           /\ leads' = Assign(leads, normalizedPhone,
                              Session(body.name, normalizedPhone))
           /\ lastWrite' = Put(lastWrite, normalizedPhone,
                               [req |-> id, route |-> "send-otp", settled |-> "none"])
           /\ dbQueue' = Put(dbQueue, id,
                  [sql |-> "INSERT",
                   params |-> InsertParams(body.name, normalizedPhone,
                                           body.catalogCode)])
           /\ reqs' = Put(reqs, id,
                  [route |-> "send-otp", name |-> body.name,
                   calls |-> <<[api |-> "verifications.create",
                                to |-> normalizedPhone, channel |-> "sms"]>>])
           /\ console' = <<>>
           /\ res' = Silent
           /\ UNCHANGED table

\* DbRunCallback, as if a failed insert ended the request with a 500
DbRunCallbackFatal(id, err) ==
    /\ req' = Idle
    /\ id \in DOMAIN dbQueue
    /\ dbQueue[id].sql = "INSERT"
    /\ IF err
       THEN /\ table' = table
            /\ console' = <<"DB insert lead error:">>
            /\ reqs' = [x \in DOMAIN reqs \ {id} |-> reqs[x]]
            /\ res' = IF id \in DOMAIN reqs
                      THEN Respond(id, "send-otp", "none",
                                   Json(500, FALSE, "Failed to send OTP"))
                      ELSE Silent
       ELSE /\ table' = InsertRow(table, dbQueue[id].params)
            /\ console' = <<"Lead stored in DB for">>
            /\ reqs' = reqs
            /\ res' = Silent
    /\ dbQueue' = Drop(dbQueue, id)
    /\ UNCHANGED <<leads, nreq, lastWrite>>

\* sqlite runs the INSERT of request id and db.run's callback is called;
\* err says whether the statement failed
DbRunCallback(id, err) ==
    /\ req' = Idle
    /\ id \in DOMAIN dbQueue
    /\ dbQueue[id].sql = "INSERT"
    /\ IF err
       THEN /\ table' = table
            /\ console' = <<"DB insert lead error:">>
       ELSE /\ table' = InsertRow(table, dbQueue[id].params)
            /\ console' = <<"Lead stored in DB for">>
    /\ dbQueue' = Drop(dbQueue, id)
    /\ res' = Silent
    /\ UNCHANGED <<leads, reqs, nreq, lastWrite>>

\* SendOtpResume, as if the catch block deleted the session it had written
SendOtpResumeForget(id, settled) ==
    /\ req' = Idle
    /\ id \in DOMAIN reqs
    /\ reqs[id].route = "send-otp"
    /\ settled \in Outcomes("send-otp")
    /\ IF settled = "error"
       THEN /\ console' = <<"Send OTP error:">>
            /\ res' = Respond(id, "send-otp", settled,
                              Json(500, FALSE, "Failed to send OTP"))
            /\ leads' = Drop(leads, reqs[id].calls[1].to)
       ELSE /\ console' = <<"Twilio OTP sent:">>
            /\ res' = Respond(id, "send-otp", settled, JsonOk)
            /\ leads' = leads
    /\ reqs' = Drop(reqs, id)
    /\ UNCHANGED <<table, dbQueue, nreq, lastWrite>>

\* verifications.create settles: the rest of the try block, or the catch
SendOtpResume(id, settled) ==
    /\ req' = Idle
    /\ id \in DOMAIN reqs
    /\ reqs[id].route = "send-otp"
    /\ settled \in Outcomes("send-otp")
    /\ IF settled = "error"
       THEN /\ console' = <<"Send OTP error:">>
            /\ res' = Respond(id, "send-otp", settled,
                              Json(500, FALSE, "Failed to send OTP"))
       ELSE /\ console' = <<"Twilio OTP sent:">>
            /\ res' = Respond(id, "send-otp", settled, JsonOk)
    /\ reqs' = Drop(reqs, id)
    /\ UNCHANGED <<leads, table, dbQueue, nreq, lastWrite>>

----------------------------------------------------------------------------
\* POST /api/verify-otp

VerifyOtp(body) ==
    /\ req' = [route |-> "verify-otp", body |-> body]
    /\ nreq < MaxReqs
    /\ nreq' = nreq + 1
    /\ LET id == nreq + 1 IN
       IF ~Truthy(body.phone) \/ ~Truthy(body.otp) THEN
           /\ res' = Respond(id, "verify-otp", "none",
                             Json(400, FALSE, "Phone and OTP are required"))
           /\ console' = <<>>
           /\ UNCHANGED <<leads, table, dbQueue, reqs, lastWrite>>
       ELSE IF body.phone.t # "string" THEN
           /\ console' = <<"TypeError">>
           /\ res' = Silent
           /\ UNCHANGED <<leads, table, dbQueue, reqs, lastWrite>>
       ELSE
           LET normalizedPhone == Normalize(body.phone.s) IN
           /\ reqs' = Put(reqs, id,
                  [route |-> "verify-otp", name |-> Undefined,
                   calls |-> <<[api |-> "verificationChecks.create",
                                to |-> normalizedPhone, code |-> body.otp]>>])
           /\ console' = <<>>
           /\ res' = Silent
           /\ UNCHANGED <<leads, table, dbQueue, lastWrite>>

\* verificationChecks.create settles: the rest of the try block, or the catch
VerifyOtpResume(id, settled) ==
    /\ req' = Idle
    /\ id \in DOMAIN reqs
    /\ reqs[id].route = "verify-otp"
    /\ settled \in Outcomes("verify-otp")
    /\ LET normalizedPhone == reqs[id].calls[1].to IN
       IF settled = "error" THEN
           /\ console' = <<"Verify OTP error:">>
           /\ res' = Respond(id, "verify-otp", settled,
                             Json(500, FALSE, "OTP verification failed"))
           /\ UNCHANGED <<leads, lastWrite>>
       ELSE IF IsApproved(settled) THEN
           /\ leads' = MarkVerified(leads, normalizedPhone)
           /\ lastWrite' = IF leads' = leads /\ normalizedPhone \notin DOMAIN leads
                           THEN lastWrite
                           ELSE Put(lastWrite, normalizedPhone,
                                    [req |-> id, route |-> "verify-otp",
                                     settled |-> settled])
           /\ console' = <<"Verification status:">>
           /\ res' = Respond(id, "verify-otp", settled, JsonOk)
       ELSE
           /\ console' = <<"Verification status:">>
           /\ res' = Respond(id, "verify-otp", settled,
                             Json(400, FALSE, "Invalid OTP"))
           /\ UNCHANGED <<leads, lastWrite>>
    /\ reqs' = Drop(reqs, id)
    /\ UNCHANGED <<table, dbQueue, nreq>>

----------------------------------------------------------------------------
\* GET /api/export-leads

ExportLeads ==
    /\ req' = [route |-> "export-leads", body |-> Undefined]
    /\ nreq < MaxReqs
    /\ nreq' = nreq + 1
    /\ dbQueue' = Put(dbQueue, nreq + 1, [sql |-> "SELECT", params |-> Null])
    /\ console' = <<>>
    /\ res' = Silent
    /\ UNCHANGED <<leads, table, reqs, lastWrite>>

\* sqlite runs the SELECT of request id and db.all's callback is called with
\* (err, rows); xlsxThrows says whether the spreadsheet library throws
ExportLeadsCallback(id, err, xlsxThrows) ==
    /\ req' = Idle
    /\ id \in DOMAIN dbQueue
    /\ dbQueue[id].sql = "SELECT"
    /\ LET rows == table IN
       IF err THEN
           /\ console' = <<"DB query error:">>
           /\ res' = Respond(id, "export-leads", "none",
                             Json(500, FALSE, "Error fetching leads"))
       ELSE IF Len(rows) = 0 THEN
           /\ console' = <<>>
           /\ res' = Respond(id, "export-leads", "none",
                             Json(400, FALSE, "No leads to export"))
       ELSE IF xlsxThrows THEN
           /\ console' = <<"Export error:">>
           /\ res' = Respond(id, "export-leads", "none",
                             Json(500, FALSE, "Error exporting leads"))
       ELSE
           /\ console' = <<>>
           /\ res' = Respond(id, "export-leads", "none", Workbook(rows))
    /\ dbQueue' = Drop(dbQueue, id)
    /\ UNCHANGED <<leads, table, reqs, nreq, lastWrite>>

----------------------------------------------------------------------------
Next ==
    \/ \E body \in SendBodies : SendOtp(body)
    \/ \E id \in DOMAIN reqs, settled \in {"pending", "error"} :
           SendOtpResume(id, settled)
    \/ \E id \in DOMAIN dbQueue, err \in BOOLEAN : DbRunCallback(id, err)
    \/ \E body \in VerifyBodies : VerifyOtp(body)
    \/ \E id \in DOMAIN reqs, settled \in {"approved", "pending", "error"} :
           VerifyOtpResume(id, settled)
    \/ ExportLeads
    \/ \E id \in DOMAIN dbQueue, err \in BOOLEAN, xlsxThrows \in BOOLEAN :
           ExportLeadsCallback(id, err, xlsxThrows)

Spec == Init /\ [][Next]_vars

----------------------------------------------------------------------------
\* Vocabulary of the properties

\* a field that is missing from the body, or the empty string
Missing(v) == v = Undefined \/ v = Str(<<>>)

\* a leading '+' followed by digits only
IsNormalForm(p) ==
    /\ Len(p) >= 1
    /\ p[1] = "+"
    /\ \A i \in 2..Len(p) :
           p[i] \in {"0", "1", "2", "3", "4", "5", "6", "7", "8", "9"}

\* the digits of a string, in order
RECURSIVE DigitsIn(_)
DigitsIn(s) ==
    IF s = <<>> THEN <<>>
    ELSE IF Head(s) \in {"0", "1", "2", "3", "4", "5", "6", "7", "8", "9"}
         THEN <<Head(s)>> \o DigitsIn(Tail(s))
         ELSE DigitsIn(Tail(s))

PendingSession(name, phone) == [name |-> name, phone |-> phone, verified |-> FALSE]

\* this step resumes request id of the given route and answers it
Answers(id, route) ==
    /\ id \in DOMAIN reqs
    /\ reqs[id].route = route
    /\ id \notin DOMAIN reqs'
    /\ res'.req = id

\* the number request id asked the provider about
To(id) == reqs[id].calls[1].to

\* this step runs the statement that request id queued
Runs(id, sql) ==
    /\ id \in DOMAIN dbQueue
    /\ dbQueue[id].sql = sql
    /\ id \notin DOMAIN dbQueue'

\* this step leaves every effect of a request untouched: no session, no row,
\* no statement queued and no provider call in flight is added or changed
NoEffect ==
    /\ leads' = leads
    /\ table' = table
    /\ dbQueue' = dbQueue
    /\ reqs' = reqs

----------------------------------------------------------------------------
\* C1: a send-otp request whose name or phone is missing or empty, and a
\* verify-otp request whose phone or otp is missing or empty, is answered 400
\* in the step that receives it, and that step calls no provider, creates or
\* changes no session and queues no insert.
C1_ValidationPrecedesEffects ==
    [][/\ (/\ req'.route = "send-otp"
           /\ Missing(req'.body.name) \/ Missing(req'.body.phone))
              => /\ res'.route = "send-otp"
                 /\ res'.req = nreq'
                 /\ res'.body.status = 400
                 /\ NoEffect
       /\ (/\ req'.route = "verify-otp"
           /\ Missing(req'.body.phone) \/ Missing(req'.body.otp))
              => /\ res'.route = "verify-otp"
                 /\ res'.req = nreq'
                 /\ res'.body.status = 400
                 /\ NoEffect]_vars

\* a verify-otp request was refused by validation while a session, a row and
\* a provider call in flight existed
C1_Witness ==
    /\ req.route = "verify-otp"
    /\ req.body.phone = Str(<<"1", "-", "2">>)
    /\ req.body.otp = Str(<<>>)
    /\ res.body.status = 400
    /\ leads # <<>>
    /\ table # <<>>
    /\ reqs # <<>>

\* C2: when the check of a verify-otp request settles while the session of
\* its phone is PENDING, 'approved' sets that session to VERIFIED and answers
\* success, and any other status answers 400 and leaves the session as it
\* was; name and phone of the session are unchanged either way.
C2_VerifyPendingSession ==
    [][\A id \in DOMAIN reqs :
           (/\ Answers(id, "verify-otp")
            /\ To(id) \in DOMAIN leads
            /\ ~leads[To(id)].verified
            /\ res'.settled # "error")
               => /\ To(id) \in DOMAIN leads'
                  /\ leads'[To(id)].name = leads[To(id)].name
                  /\ leads'[To(id)].phone = leads[To(id)].phone
                  /\ IF res'.settled = "approved"
                     THEN /\ leads'[To(id)].verified
                          /\ res'.body = [status |-> 200, success |-> TRUE]
                     ELSE /\ ~leads'[To(id)].verified
                          /\ res'.body.status = 400
                          /\ res'.body.message = "Invalid OTP"]_vars

\* an approved check has just verified a session
C2_Witness ==
    /\ res.route = "verify-otp"
    /\ res.settled = "approved"
    /\ res.body.status = 200
    /\ \E k \in DOMAIN leads :
           /\ leads[k].verified
           /\ lastWrite[k].req = res.req

\* C3 as stated: when verifications.create fails, the request is answered
\* 500, made one provider call only, and the session of its normalized phone
\* is PENDING with the submitted name.
C3_AsStated ==
    [][\A id \in DOMAIN reqs :
           (Answers(id, "send-otp") /\ res'.settled = "error")
               => /\ res'.body.status = 500
                  /\ Len(reqs[id].calls) = 1
                  /\ To(id) \in DOMAIN leads'
                  /\ leads'[To(id)] = PendingSession(reqs[id].name, To(id))]_vars

\* C3 (amended): when verifications.create fails, the request is answered 500,
\* made one provider call only, and the failure leaves the session map as it
\* was: the entry of its normalized phone exists, and it is PENDING with the
\* submitted name unless another request assigned that entry after this
\* request did.
C3_SendFailureLeavesSession ==
    [][\A id \in DOMAIN reqs :
           (Answers(id, "send-otp") /\ res'.settled = "error")
               => /\ res'.body.status = 500
                  /\ res'.body.message = "Failed to send OTP"
                  /\ Len(reqs[id].calls) = 1
                  /\ reqs[id].calls[1].api = "verifications.create"
                  /\ leads' = leads
                  /\ To(id) \in DOMAIN leads'
                  /\ lastWrite[To(id)].req = id
                         => leads'[To(id)] = PendingSession(reqs[id].name, To(id))]_vars

\* a send-otp request has just failed with its own session entry in place
C3_Witness ==
    /\ res.route = "send-otp"
    /\ res.settled = "error"
    /\ res.body.status = 500
    /\ \E k \in DOMAIN leads :
           /\ lastWrite[k].req = res.req
           /\ ~leads[k].verified

\* C4: a failed insert is only logged: the step that fails it writes the
\* error line and touches neither the sessions, the requests in flight nor any
\* response; every send-otp request in flight has called verifications.create
\* for its normalized phone whatever became of its insert; and its answer is
\* 200 exactly when that call resolved and 500 exactly when it rejected.
C4_InsertFailureNotFatal ==
    [][/\ \A id \in DOMAIN dbQueue :
              Runs(id, "INSERT")
                  => /\ leads' = leads
                     /\ reqs' = reqs
                     /\ res' = Silent
                     /\ table' = table => console' = <<"DB insert lead error:">>
       /\ \A id \in DOMAIN reqs' :
              reqs'[id].route = "send-otp"
                  => /\ Len(reqs'[id].calls) = 1
                     /\ reqs'[id].calls[1].api = "verifications.create"
                     /\ IsNormalForm(reqs'[id].calls[1].to)
       /\ \A id \in DOMAIN reqs :
              Answers(id, "send-otp")
                  => /\ res'.body.status = 200 <=> res'.settled = "pending"
                     /\ res'.body.status = 500 <=> res'.settled = "error"]_vars

\* a send-otp request is answered success although its insert has failed
C4_Witness ==
    /\ res.route = "send-otp"
    /\ res.body.status = 200
    /\ res.req = 1
    /\ nreq = 1
    /\ 1 \notin DOMAIN dbQueue
    /\ table = <<>>

C6_AsStated ==
    [][\A id \in DOMAIN dbQueue :
           Runs(id, "SELECT")
               => /\ res'.body.status = 400 <=> Len(table) = 0
                  /\ Len(table) > 0
                         => /\ res'.body.status = 200
                            /\ Len(res'.body.sheet.data) = Len(table)
                  /\ table' = table
                  /\ leads' = leads]_vars

\* C6 (amended): the export changes neither the table nor a session; unless
\* it is answered 500 (the read failed or the spreadsheet library threw), it
\* is answered 400 exactly when the table is empty at the time of the read,
\* and otherwise with a document of one sheet, 'Leads', holding exactly one
\* row per record, in insertion order.
C6_ExportOneRowPerRecord ==
    [][\A id \in DOMAIN dbQueue :
           Runs(id, "SELECT")
               => /\ res'.route = "export-leads"
                  /\ res'.req = id
                  /\ res'.body.status \in {200, 400, 500}
                  /\ res'.body.status # 500
                         => /\ res'.body.status = 400 <=> Len(table) = 0
                            /\ Len(table) > 0
                                   => /\ res'.body.status = 200
                                      /\ res'.body.sheetName = "Leads"
                                      /\ Len(res'.body.sheet.data) = Len(table)
                                      /\ \A i \in 1..Len(table) :
                                             /\ res'.body.sheet.data[i][1] = table[i].id
                                             /\ res'.body.sheet.data[i][3] = table[i].phone
                  /\ table' = table
                  /\ leads' = leads]_vars

\* an export has just returned a document of two rows
C6_Witness ==
    /\ res.route = "export-leads"
    /\ res.body.status = 200
    /\ Len(table) = 2
    /\ Len(res.body.sheet.data) = 2

\* C7: when send-otp has answered success, the insert it queued has already
\* been run (the row stored, or the failure logged).
C7_InsertBeforeAcknowledgement ==
    (res.route = "send-otp" /\ res.body.status = 200)
        => res.req \notin DOMAIN dbQueue

\* C8: a verify-otp request for a phone without a session has called
\* verificationChecks.create for that phone; when the call settles with no
\* session for the phone, the answer is the provider's verdict (200 on
\* approved, 400 on another status) and the session map is unchanged.
C8_VerifyWithoutSession ==
    [][/\ \A id \in DOMAIN reqs' :
              reqs'[id].route = "verify-otp"
                  => /\ Len(reqs'[id].calls) = 1
                     /\ reqs'[id].calls[1].api = "verificationChecks.create"
       /\ \A id \in DOMAIN reqs :
              (/\ Answers(id, "verify-otp")
               /\ To(id) \notin DOMAIN leads
               /\ res'.settled # "error")
                  => /\ leads' = leads
                     /\ res'.settled = "approved" => res'.body.status = 200
                     /\ res'.settled # "approved" => res'.body.status = 400]_vars

\* a check was approved for a phone while no session existed at all
C8_Witness ==
    /\ res.route = "verify-otp"
    /\ res.settled = "approved"
    /\ res.body.status = 200
    /\ leads = <<>>

\* C9 as stated: a session once created is never removed, and a session that
\* is VERIFIED is VERIFIED ever after.
C9_AsStated ==
    [][\A k \in DOMAIN leads :
           /\ k \in DOMAIN leads'
           /\ leads[k].verified => leads'[k].verified]_vars

\* C9 (amended): a session once created is never removed, and a session that
\* is VERIFIED stays VERIFIED except in the step in which a new send-otp
\* request for the same normalized phone overwrites it with a PENDING one.
C9_SessionMovesForward ==
    [][\A k \in DOMAIN leads :
           /\ k \in DOMAIN leads'
           /\ (leads[k].verified /\ ~leads'[k].verified)
                  => /\ nreq' = nreq + 1
                     /\ nreq' \in DOMAIN reqs'
                     /\ reqs'[nreq'].route = "send-otp"
                     /\ reqs'[nreq'].calls[1].to = k
                     /\ leads'[k] = PendingSession(reqs'[nreq'].name, k)]_vars

\* a VERIFIED session exists next to a PENDING one
C9_Witness ==
    \E k, q \in DOMAIN leads :
        /\ leads[k].verified
        /\ ~leads[q].verified
        /\ lastWrite[q].req < lastWrite[k].req

\* the last assignment to every VERIFIED session was an approved check
VerifiedByApproval ==
    \A k \in DOMAIN leads :
        leads[k].verified
            => /\ lastWrite[k].route = "verify-otp"
               /\ lastWrite[k].settled = "approved"

\* C10: a session is VERIFIED only if the last request that assigned it was a
\* verify-otp for its own phone whose check was approved; and a step changes
\* the entry of phone k only if it receives a send-otp request for k or
\* resumes a verify-otp request for k on 'approved'.
C10_VerifiedOnlyByOwnApproval ==
    [][/\ VerifiedByApproval'
       /\ \A k \in DOMAIN leads' :
              (k \notin DOMAIN leads \/ leads'[k] # leads[k])
                  => \/ /\ nreq' = nreq + 1
                        /\ nreq' \in DOMAIN reqs'
                        /\ reqs'[nreq'].route = "send-otp"
                        /\ reqs'[nreq'].calls[1].to = k
                        /\ ~leads'[k].verified
                     \/ \E id \in DOMAIN reqs :
                            /\ Answers(id, "verify-otp")
                            /\ To(id) = k
                            /\ res'.settled = "approved"]_vars

\* one phone was verified after being submitted again, while a check for
\* another phone is still in flight
C10_Witness ==
    \E k \in DOMAIN leads :
        /\ leads[k].verified
        /\ lastWrite[k].req = 3
        /\ \E id \in DOMAIN reqs :
               /\ reqs[id].route = "verify-otp"
               /\ To(id) # k

====
